---- MODULE Spec2Model ----
(***************************************************************************)
(* Model of hw/arc/efi.c: efi_probe_firmware and the firmware-volume walk  *)
(* behind it (load_firmware, get_entry_point, get_sec_entry_point,         *)
(* get_size, align4_ptr, align8_ptr, reset_vector_empty, check_te_sign).   *)
(*                                                                         *)
(* A firmware file is a size and its bytes.  The bytes are kept sparsely:  *)
(* `data` maps the offsets of the header fields to their values and every  *)
(* other offset below `size` holds the byte `fill`.  The program reads the *)
(* file only through byte offsets, as the C code does through its struct   *)
(* overlays (little-endian host, blob base address 8-aligned, as g_malloc  *)
(* returns it).  A read at an offset >= the allocated size is undefined    *)
(* behaviour: it yields whatever follows the heap block (one of the        *)
(* patterns of Tails, chosen when the first such read happens) or the      *)
(* process dies.                                                           *)
(***************************************************************************)
EXTENDS Integers, Sequences, FiniteSets, TLC

\* ------------------------------------------------------------------ bounds
MaxFiles == 2
MaxSects == 2

\* ------------------------------------------------- constants of the source
\* 32-bit values are kept as their four bytes, least significant first
EFI_INVALID_ENTRY_POINT == <<255, 255, 255, 255>>
Zero32 == <<0, 0, 0, 0>>
SECURITY_CORE == 3
SECTION_TE == 18
RESET_VECTOR_SIZE == 16
FV_SIGNATURE == <<95, 70, 86, 72>>
TE_SIGNATURE == <<86, 90>>
SizeMask == 4096

\* sizeof and offsetof of the four overlaid structs
SizeofFvHdr == 56
OffFvLen == 32
OffFvSign == 40
OffHdrLen == 48
SizeofFileHdr == 24
OffFileType == 18
OffFileSize == 20
SizeofSectHdr == 4
OffSectType == 3
SizeofTeHdr == 32
OffTeEntry == 8

\* ------------------------------------------------------------ pure helpers
\* (size[0] | size[1] << 8 | size[2] << 16) & 0x0fff
get_size(b0, b1, b2) == (b0 + b1 * 256 + b2 * 65536) % SizeMask

align4_ptr(p) == ((p + 3) \div 4) * 4

align8_ptr(p) == ((p + 7) \div 8) * 8

\* value (below 2^31) -> n little-endian bytes, as a function on off..off+n-1
LEAt(off, v, n) ==
    [o \in off..(off + n - 1) |-> IF o - off >= 4 THEN 0 ELSE (v \div (256 ^ (o - off))) % 256]

SeqAt(off, s) == [o \in off..(off + Len(s) - 1) |-> s[o - off + 1]]

\* ------------------------------------------------- the firmware files tried
\* Layout of one section header (and its TE header) at offset off; i, j are
\* the indices of the file and the section, which make every entry point
\* field distinct.
EntryOf(i, j) == 287454020 + 16 * i + j

SectKinds == {"raw6", "rawbig", "teok", "tebig", "tebad"}

SectLen(k) == CASE k = "raw6" -> 6
                [] k = "rawbig" -> 4096
                [] k = "tebig" -> 4072
                [] OTHER -> SizeofSectHdr + SizeofTeHdr

SectData(off, k, i, j) ==
    LEAt(off, SectLen(k), 3) @@
    (IF k \in {"teok", "tebig", "tebad"}
       THEN ((off + OffSectType) :> SECTION_TE) @@
            SeqAt(off + SizeofSectHdr, IF k = "tebad" THEN <<86, 0>> ELSE TE_SIGNATURE) @@
            LEAt(off + SizeofSectHdr + OffTeEntry, EntryOf(i, j), 4)
       ELSE ((off + OffSectType) :> 25))

RECURSIVE SectsLayout(_, _, _, _)
\* sections ks[j..] laid out from offset off (4-aligned) on
SectsLayout(off, ks, i, j) ==
    IF j > Len(ks) THEN [data |-> <<>>, end |-> off]
    ELSE LET at == align4_ptr(off)
             rest == SectsLayout(at + SectLen(ks[j]), ks, i, j + 1)
         IN [data |-> SectData(at, ks[j], i, j) @@ rest.data, end |-> rest.end]

FileKinds == {"sec", "pad30", "pad4096", "pad4120"}

PadLen(k) == CASE k = "pad30" -> 30 [] k = "pad4096" -> 4096 [] OTHER -> 4120

\* one file at offset off (8-aligned): header, then its sections or payload
FileLayout(off, k, sects, i) ==
    IF k = "sec"
      THEN LET body == SectsLayout(off + SizeofFileHdr, sects, i, 1)
           IN [data |-> ((off + OffFileType) :> SECURITY_CORE) @@
                        LEAt(off + OffFileSize, body.end - off, 3) @@ body.data,
               end |-> body.end]
      ELSE [data |-> ((off + OffFileType) :> 2) @@ LEAt(off + OffFileSize, PadLen(k), 3),
            end |-> off + PadLen(k)]

RECURSIVE FilesLayout(_, _, _, _, _)
\* The first Security-Core file holds the sections `sects`; a later one
\* holds a single valid TE section.
FilesLayout(off, ks, sects, i, seenSec) ==
    IF i > Len(ks) THEN [data |-> <<>>, end |-> off]
    ELSE LET at == align8_ptr(off)
             f == FileLayout(at, ks[i], IF seenSec THEN <<"teok">> ELSE sects, i)
             rest == FilesLayout(f.end, ks, sects, i + 1, seenSec \/ ks[i] = "sec")
         IN [data |-> f.data @@ rest.data, end |-> rest.end]

Variants == {"ok", "badsign", "rvset", "fvlen_over", "fvlen_under", "truncated",
             "hdr60", "fill0", "short"}

\* the file a descriptor (variant, file kinds, sections of the first SEC file) denotes
Image(v, ks, sects) ==
    LET hdr_len == IF v = "hdr60" THEN 60 ELSE SizeofFvHdr
        body == FilesLayout(hdr_len, ks, sects, 1, FALSE)
        total == body.end
        fv_len == CASE v = "fvlen_over" -> total + 64
                    [] v = "fvlen_under" -> hdr_len
                    [] OTHER -> total
        size == CASE v = "short" -> 10
                  [] v = "truncated" -> IF total - 28 < SizeofFvHdr THEN SizeofFvHdr ELSE total - 28
                  [] OTHER -> total
        all == [o \in 0..(RESET_VECTOR_SIZE - 1) |->
                   IF v = "rvset" /\ o = RESET_VECTOR_SIZE - 1 THEN 144 ELSE 0] @@
               LEAt(OffFvLen, fv_len, 8) @@
               SeqAt(OffFvSign, IF v = "badsign" THEN <<95, 70, 86, 88>> ELSE FV_SIGNATURE) @@
               LEAt(OffHdrLen, hdr_len, 2) @@
               body.data
    IN [size |-> size,
        fill |-> IF v = "fill0" THEN 0 ELSE 255,
        data |-> [o \in {x \in DOMAIN all : x < size} |-> all[o]]]

SeqsUpTo(S, n) == UNION {[1..k -> S] : k \in 0..n}

Images == {Image(v, ks, sects) : v \in Variants, ks \in SeqsUpTo(FileKinds, MaxFiles),
                                 sects \in SeqsUpTo(SectKinds, MaxSects)}

\* what lies behind the heap block: the byte at offset o is Tails[t][o % 8 + 1]
Tails == {<<0, 0, 0, 0, 0, 0, 0, 0>>,
          <<255, 255, 255, 255, 255, 255, 255, 255>>,
          <<8, 0, 3, 18, 86, 90, 0, 0>>}

\* ------------------------------------------------------------------- state
VARIABLES
    file,       \* the firmware file on disk: [size, fill, data]
    pc,         \* position of the one call of efi_probe_firmware
    fd,         \* "none", "open" or "closed"
    fv,         \* struct fv_hdr fv, NoFv until read
    fsize,      \* size_t fsize as measured by lseek(SEEK_END)
    blob,       \* the g_malloc'ed buffer: "none", "live" or "freed"
    blobData,   \* what the buffer holds once the whole file is read
    tail,       \* the bytes that follow the heap block, NoTail until read
    ptr, end,   \* get_entry_point's walk, as offsets from blob
    sptr, send, \* get_sec_entry_point's walk, as offsets from blob
    entry,      \* the local `entry`
    result,     \* the value returned, NoResult until the call returns
    sink,       \* the calls of rom_add_blob_fixed, in order
    nOpen, nClose, nAlloc, nFree,   \* how often each was called
    seenFiles, seenSects, seenTe,   \* offsets of the headers decoded so far
    hdrRead, blobRead,              \* outcome of the two read() calls
    usedFreed   \* TRUE once the buffer was read or handed on after g_free

vars == <<file, pc, fd, fv, fsize, blob, blobData, tail, ptr, end, sptr, send,
          entry, result, sink, nOpen, nClose, nAlloc, nFree,
          seenFiles, seenSects, seenTe, hdrRead, blobRead, usedFreed>>

NoFv == [sign |-> <<>>, reset_vector |-> <<>>, fv_len |-> 0, hdr_len |-> 0]
NoTail == <<>>
NoResult == <<>>
NoData == "uninit"

\* byte o of the file on disk
FileByte(f, o) == IF o \in DOMAIN f.data THEN f.data[o] ELSE f.fill

\* n bytes of the file from offset o, in order
FileBytes(f, o, n) == [k \in 1..n |-> FileByte(f, o + k - 1)]

\* little-endian value of a byte sequence
RECURSIVE LEVal(_)
LEVal(bs) == IF bs = <<>> THEN 0 ELSE Head(bs) + 256 * LEVal(Tail(bs))

\* blob[o]: a byte of the buffer, or of what follows it when o >= fsize
Rd(o, t) == IF o < fsize THEN FileByte(blobData, o) ELSE t[(o % 8) + 1]

\* the tails a step may see when the highest offset it reads is maxoff
TailsFor(maxoff) == IF maxoff >= fsize /\ tail = NoTail THEN Tails ELSE {tail}

\* the loop stops one byte early
reset_vector_empty_skip_last(buf) == \A i \in 1..(RESET_VECTOR_SIZE - 1) : buf[i] = 0

reset_vector_empty(buf) == \A i \in 1..RESET_VECTOR_SIZE : buf[i] = 0

\* only the low byte of the signature is compared
check_te_sign_first_byte(sign) == sign[1] = TE_SIGNATURE[1]

check_te_sign(sign) == sign = TE_SIGNATURE

Init ==
    /\ file \in Images
    /\ pc = "start"
    /\ fd = "none"
    /\ fv = NoFv
    /\ fsize = 0
    /\ blob = "none"
    /\ blobData = NoData
    /\ tail = NoTail
    /\ ptr = 0 /\ end = 0 /\ sptr = 0 /\ send = 0
    /\ entry = NoResult
    /\ result = NoResult
    /\ sink = <<>>
    /\ nOpen = 0 /\ nClose = 0 /\ nAlloc = 0 /\ nFree = 0
    /\ seenFiles = {} /\ seenSects = {} /\ seenTe = {}
    /\ hdrRead = "none" /\ blobRead = "none"
    /\ usedFreed = FALSE

walkVars == <<ptr, end, sptr, send, seenFiles, seenSects, seenTe, tail>>
resVars == <<nOpen, nClose, nAlloc, nFree, sink, usedFreed>>

\* if (!file) return EFI_INVALID_ENTRY_POINT;
ProbeNull ==
    /\ pc = "start"
    /\ pc' = "done"
    /\ result' = EFI_INVALID_ENTRY_POINT
    /\ UNCHANGED <<file, fd, fv, fsize, blob, blobData, entry, hdrRead, blobRead>>
    /\ UNCHANGED walkVars /\ UNCHANGED resVars

\* fd = open(file, ...) fails
OpenFail ==
    /\ pc = "start"
    /\ pc' = "done"
    /\ result' = EFI_INVALID_ENTRY_POINT
    /\ UNCHANGED <<file, fd, fv, fsize, blob, blobData, entry, hdrRead, blobRead>>
    /\ UNCHANGED walkVars /\ UNCHANGED resVars

\* fd = open(file, ...) succeeds
OpenOk ==
    /\ pc = "start"
    /\ pc' = "read_hdr"
    /\ fd' = "open"
    /\ nOpen' = nOpen + 1
    /\ UNCHANGED <<file, fv, fsize, blob, blobData, entry, result, hdrRead, blobRead>>
    /\ UNCHANGED walkVars /\ UNCHANGED <<nClose, nAlloc, nFree, sink, usedFreed>>

\* read(fd, &fv, sizeof(fv)) != sizeof(fv): entry = 0; goto out
HdrShort ==
    /\ pc = "read_hdr"
    /\ hdrRead' = "short"
    /\ entry' = Zero32
    /\ pc' = "out"
    /\ UNCHANGED <<file, fd, fv, fsize, blob, blobData, result, blobRead>>
    /\ UNCHANGED walkVars /\ UNCHANGED resVars

\* the header as read(fd, &fv, sizeof(fv)) fills it
ReadFv(f) == [reset_vector |-> FileBytes(f, 0, RESET_VECTOR_SIZE),
              fv_len |-> LEVal(FileBytes(f, OffFvLen, 8)),
              sign |-> FileBytes(f, OffFvSign, 4),
              hdr_len |-> LEVal(FileBytes(f, OffHdrLen, 2))]

\* the read is complete and fv.sign != fv_sign: entry = 0; goto out
HdrBadSign ==
    /\ pc = "read_hdr"
    /\ file.size >= SizeofFvHdr
    /\ ReadFv(file).sign # FV_SIGNATURE
    /\ hdrRead' = "ok"
    /\ fv' = ReadFv(file)
    /\ entry' = Zero32
    /\ pc' = "out"
    /\ UNCHANGED <<file, fd, fsize, blob, blobData, result, blobRead>>
    /\ UNCHANGED walkVars /\ UNCHANGED resVars

\* the signature matches and !reset_vector_empty(fv.reset_vector): entry = 0; goto out
HdrResetVector ==
    /\ pc = "read_hdr"
    /\ file.size >= SizeofFvHdr
    /\ ReadFv(file).sign = FV_SIGNATURE
    /\ ~reset_vector_empty(ReadFv(file).reset_vector)
    /\ hdrRead' = "ok"
    /\ fv' = ReadFv(file)
    /\ entry' = Zero32
    /\ pc' = "out"
    /\ UNCHANGED <<file, fd, fsize, blob, blobData, result, blobRead>>
    /\ UNCHANGED walkVars /\ UNCHANGED resVars

\* the header is valid: fsize = lseek(fd, 0, SEEK_END); load_firmware(fd, fsize, &fv)
HdrOk ==
    /\ pc = "read_hdr"
    /\ file.size >= SizeofFvHdr
    /\ ReadFv(file).sign = FV_SIGNATURE
    /\ reset_vector_empty(ReadFv(file).reset_vector)
    /\ hdrRead' = "ok"
    /\ fv' = ReadFv(file)
    /\ fsize' = file.size
    /\ pc' = "load"
    /\ UNCHANGED <<file, fd, blob, blobData, entry, result, blobRead>>
    /\ UNCHANGED walkVars /\ UNCHANGED resVars

\* as LoadShort, but the error path returns without g_free(blob)
LoadShortLeak ==
    /\ pc = "load"
    /\ blob' = "live"
    /\ nAlloc' = nAlloc + 1
    /\ blobRead' = "short"
    /\ entry' = EFI_INVALID_ENTRY_POINT
    /\ pc' = "out"
    /\ UNCHANGED <<file, fd, fv, fsize, blobData, result, hdrRead>>
    /\ UNCHANGED walkVars /\ UNCHANGED <<nOpen, nClose, nFree, sink, usedFreed>>

\* load_firmware: blob = g_malloc(fsize), and read(fd, blob, fsize) != fsize.
\* (g_malloc returns NULL only for fsize = 0, which a file that gave a whole
\* header cannot measure.)
LoadShort ==
    /\ pc = "load"
    /\ blob' = "live"
    /\ nAlloc' = nAlloc + 1
    /\ blobRead' = "short"
    /\ entry' = EFI_INVALID_ENTRY_POINT
    /\ pc' = "free"
    /\ UNCHANGED <<file, fd, fv, fsize, blobData, result, hdrRead>>
    /\ UNCHANGED walkVars /\ UNCHANGED <<nOpen, nClose, nFree, sink, usedFreed>>

\* load_firmware: blob = g_malloc(fsize), the whole file is read, and
\* get_entry_point(blob, fv_hdr) starts: ptr = align8_ptr(blob + hdr_len)
LoadOk ==
    /\ pc = "load"
    /\ blob' = "live"
    /\ nAlloc' = nAlloc + 1
    /\ blobRead' = "ok"
    /\ blobData' = [fill |-> file.fill, data |-> file.data]
    /\ ptr' = align8_ptr(fv.hdr_len)
    /\ end' = fv.hdr_len + fv.fv_len
    /\ pc' = "file_walk"
    /\ UNCHANGED <<file, fd, fv, fsize, entry, result, hdrRead>>
    /\ UNCHANGED <<sptr, send, seenFiles, seenSects, seenTe, tail>>
    /\ UNCHANGED <<nOpen, nClose, nFree, sink, usedFreed>>

\* the walk reads the buffer; true if that happens after g_free
Touch == usedFreed \/ blob = "freed"

\* get_entry_point: while (ptr < end) is false
FileWalkEnd ==
    /\ pc = "file_walk"
    /\ ~(ptr < end)
    /\ entry' = EFI_INVALID_ENTRY_POINT
    /\ pc' = "rom"
    /\ UNCHANGED <<file, fd, fv, fsize, blob, blobData, result, hdrRead, blobRead>>
    /\ UNCHANGED walkVars /\ UNCHANGED resVars

\* get_entry_point: file->type != SECURITY_CORE:
\* ptr += get_size(file->size); ptr = align8_ptr(ptr)
FileWalkNext ==
    /\ pc = "file_walk"
    /\ ptr < end
    /\ \E t \in TailsFor(ptr + OffFileSize + 2) :
        /\ Rd(ptr + OffFileType, t) # SECURITY_CORE
        /\ tail' = t
        /\ ptr' = align8_ptr(ptr + get_size(Rd(ptr + OffFileSize, t),
                                            Rd(ptr + OffFileSize + 1, t),
                                            Rd(ptr + OffFileSize + 2, t)))
    /\ seenFiles' = seenFiles \cup {ptr}
    /\ usedFreed' = Touch
    /\ UNCHANGED <<file, pc, fd, fv, fsize, blob, blobData, entry, result, hdrRead, blobRead>>
    /\ UNCHANGED <<end, sptr, send, seenSects, seenTe>>
    /\ UNCHANGED <<nOpen, nClose, nAlloc, nFree, sink>>

\* get_entry_point: file->type == SECURITY_CORE: return get_sec_entry_point(file),
\* which starts: ptr = file + sizeof(*file); end = ptr + get_size(file->size);
\* ptr = align4_ptr(ptr)
FileWalkSec ==
    /\ pc = "file_walk"
    /\ ptr < end
    /\ \E t \in TailsFor(ptr + OffFileSize + 2) :
        /\ Rd(ptr + OffFileType, t) = SECURITY_CORE
        /\ tail' = t
        /\ send' = ptr + SizeofFileHdr + get_size(Rd(ptr + OffFileSize, t),
                                                  Rd(ptr + OffFileSize + 1, t),
                                                  Rd(ptr + OffFileSize + 2, t))
    /\ sptr' = align4_ptr(ptr + SizeofFileHdr)
    /\ seenFiles' = seenFiles \cup {ptr}
    /\ usedFreed' = Touch
    /\ pc' = "sect_walk"
    /\ UNCHANGED <<file, fd, fv, fsize, blob, blobData, entry, result, hdrRead, blobRead>>
    /\ UNCHANGED <<ptr, end, seenSects, seenTe>>
    /\ UNCHANGED <<nOpen, nClose, nAlloc, nFree, sink>>

\* as SectWalkEnd, but a Security-Core file without a TE section sends the
\* walk on to the next file
SectWalkEndResume ==
    /\ pc = "sect_walk"
    /\ ~(sptr < send)
    /\ ptr' = align8_ptr(sptr)
    /\ pc' = "file_walk"
    /\ UNCHANGED <<file, fd, fv, fsize, blob, blobData, entry, result, hdrRead, blobRead>>
    /\ UNCHANGED <<end, sptr, send, seenFiles, seenSects, seenTe, tail>>
    /\ UNCHANGED resVars

\* get_sec_entry_point: while (ptr < end) is false
SectWalkEnd ==
    /\ pc = "sect_walk"
    /\ ~(sptr < send)
    /\ entry' = EFI_INVALID_ENTRY_POINT
    /\ pc' = "rom"
    /\ UNCHANGED <<file, fd, fv, fsize, blob, blobData, result, hdrRead, blobRead>>
    /\ UNCHANGED walkVars /\ UNCHANGED resVars

\* get_sec_entry_point: sect->type != SECTION_TE:
\* ptr += get_size(sect->size); ptr = align4_ptr(ptr)
SectWalkNext ==
    /\ pc = "sect_walk"
    /\ sptr < send
    /\ \E t \in TailsFor(sptr + OffSectType) :
        /\ Rd(sptr + OffSectType, t) # SECTION_TE
        /\ tail' = t
        /\ sptr' = align4_ptr(sptr + get_size(Rd(sptr, t), Rd(sptr + 1, t), Rd(sptr + 2, t)))
    /\ seenSects' = seenSects \cup {sptr}
    /\ usedFreed' = Touch
    /\ UNCHANGED <<file, pc, fd, fv, fsize, blob, blobData, entry, result, hdrRead, blobRead>>
    /\ UNCHANGED <<ptr, end, send, seenFiles, seenTe>>
    /\ UNCHANGED <<nOpen, nClose, nAlloc, nFree, sink>>

\* the value get_sec_entry_point returns for the TE header at offset te
TeEntry(te, t) ==
    IF check_te_sign(<<Rd(te, t), Rd(te + 1, t)>>)
      THEN [k \in 1..4 |-> Rd(te + OffTeEntry + k - 1, t)]
      ELSE EFI_INVALID_ENTRY_POINT

\* get_sec_entry_point: sect->type == SECTION_TE: te = ptr + sizeof(*sect);
\* a bad signature returns EFI_INVALID_ENTRY_POINT, a good one te->entry_point
SectWalkTe ==
    /\ pc = "sect_walk"
    /\ sptr < send
    /\ \E t \in TailsFor(sptr + SizeofSectHdr + OffTeEntry + 3) :
        /\ Rd(sptr + OffSectType, t) = SECTION_TE
        /\ tail' = t
        /\ entry' = TeEntry(sptr + SizeofSectHdr, t)
    /\ seenSects' = seenSects \cup {sptr}
    /\ seenTe' = seenTe \cup {sptr + SizeofSectHdr}
    /\ usedFreed' = Touch
    /\ pc' = "rom"
    /\ UNCHANGED <<file, fd, fv, fsize, blob, blobData, result, hdrRead, blobRead>>
    /\ UNCHANGED <<ptr, end, sptr, send, seenFiles>>
    /\ UNCHANGED <<nOpen, nClose, nAlloc, nFree, sink>>

\* a read behind the heap block hits an unmapped page: the process dies
Segv ==
    /\ \/ pc = "file_walk" /\ ptr < end /\ ptr + OffFileSize + 2 >= fsize
       \/ /\ pc = "sect_walk" /\ sptr < send
          /\ IF sptr + OffSectType >= fsize
               THEN TRUE
               ELSE /\ Rd(sptr + OffSectType, tail) = SECTION_TE
                    /\ sptr + SizeofSectHdr + OffTeEntry + 3 >= fsize
    /\ pc' = "crashed"
    /\ UNCHANGED <<file, fd, fv, fsize, blob, blobData, entry, result, hdrRead, blobRead>>
    /\ UNCHANGED walkVars /\ UNCHANGED resVars

\* as RomAdd, but the blob is handed on only when an entry point was found
RomAddIfFound ==
    /\ pc = "rom"
    /\ sink' = IF entry = EFI_INVALID_ENTRY_POINT
                THEN sink
                ELSE Append(sink, [name |-> "uefi", data |-> blobData, size |-> fsize, addr |-> 0])
    /\ usedFreed' = Touch
    /\ pc' = "free"
    /\ UNCHANGED <<file, fd, fv, fsize, blob, blobData, entry, result, hdrRead, blobRead>>
    /\ UNCHANGED walkVars /\ UNCHANGED <<nOpen, nClose, nAlloc, nFree>>

\* load_firmware, after get_entry_point returned:
\* rom_add_blob_fixed("uefi", blob, fsize, 0)
RomAdd ==
    /\ pc = "rom"
    /\ sink' = Append(sink, [name |-> "uefi", data |-> blobData, size |-> fsize, addr |-> 0])
    /\ usedFreed' = Touch
    /\ pc' = "free"
    /\ UNCHANGED <<file, fd, fv, fsize, blob, blobData, entry, result, hdrRead, blobRead>>
    /\ UNCHANGED walkVars /\ UNCHANGED <<nOpen, nClose, nAlloc, nFree>>

\* load_firmware: g_free(blob); return entry
Free ==
    /\ pc = "free"
    /\ blob' = "freed"
    /\ nFree' = nFree + 1
    /\ pc' = "out"
    /\ UNCHANGED <<file, fd, fv, fsize, blobData, entry, result, hdrRead, blobRead>>
    /\ UNCHANGED walkVars /\ UNCHANGED <<nOpen, nClose, nAlloc, sink, usedFreed>>

\* out: close(fd); return entry
Close ==
    /\ pc = "out"
    /\ fd' = "closed"
    /\ nClose' = nClose + 1
    /\ result' = entry
    /\ pc' = "done"
    /\ UNCHANGED <<file, fv, fsize, blob, blobData, entry, hdrRead, blobRead>>
    /\ UNCHANGED walkVars /\ UNCHANGED <<nOpen, nAlloc, nFree, sink, usedFreed>>

Next ==
    \/ ProbeNull \/ OpenFail \/ OpenOk
    \/ HdrShort \/ HdrBadSign \/ HdrResetVector \/ HdrOk
    \/ LoadShort \/ LoadOk
    \/ FileWalkEnd \/ FileWalkNext \/ FileWalkSec
    \/ SectWalkEnd \/ SectWalkNext \/ SectWalkTe
    \/ Segv
    \/ RomAdd \/ Free \/ Close

Spec == Init /\ [][Next]_vars

\* ================================================================= claims
U32(v) == [k \in 1..4 |-> (v \div (256 ^ (k - 1))) % 256]

Count(s, S) == Cardinality({k \in DOMAIN s : s[k] \in S})

TeKinds == {"teok", "tebig"}

\* byte o of the buffer in the current state
Byte(o) == Rd(o, tail)

\* the signature of the TE header decoded at te is not "VZ"
BadTe(te) == <<Byte(te), Byte(te + 1)>> # TE_SIGNATURE

\* the file headers decoded so far whose type is Security-Core
SecSeen == {f \in seenFiles : Byte(f + OffFileType) = SECURITY_CORE}

\* what the sink receives for the file on disk
Delivered == [name |-> "uefi", data |-> [fill |-> file.fill, data |-> file.data],
              size |-> file.size, addr |-> 0]

\* Well-formed volumes with exactly one Security-Core file that holds exactly
\* one TE section (valid "VZ" signature), with the entry point to expect.
C1Descs ==
    {d \in [v : {"ok", "hdr60", "fill0"},
            ks : {x \in SeqsUpTo(FileKinds, MaxFiles) : Count(x, {"sec"}) = 1},
            sects : {x \in SeqsUpTo(SectKinds, MaxSects) :
                        Count(x, TeKinds) = 1 /\ Count(x, {"tebad"}) = 0},
            i : 1..MaxFiles, j : 1..MaxSects] :
        /\ d.i \in DOMAIN d.ks /\ d.ks[d.i] = "sec"
        /\ d.j \in DOMAIN d.sects /\ d.sects[d.j] \in TeKinds}

C1Cases == {[img |-> Image(d.v, d.ks, d.sects), want |-> U32(EntryOf(d.i, d.j))] : d \in C1Descs}

C1Here == {c \in C1Cases : c.img = file}

\* C1: for every well-formed volume with exactly one Security-Core file
\* holding one TE section signed "VZ", whatever non-Security-Core files and
\* non-TE sections of any size precede them, the call returns that TE
\* header's entry_point field.
C1_EntryPointReturned ==
    (pc = "done" /\ blobRead = "ok") => \A c \in C1Here : result = c.want

C3_ShortHeaderReturnsInvalid ==
    (pc = "done" /\ hdrRead = "short") => result = EFI_INVALID_ENTRY_POINT

\* Volumes with a valid signature and an all-zero reset vector, whole on disk,
\* with at least one file entry and none that is a Security-Core file.
C4Images == {Image(v, ks, <<>>) : v \in {"ok", "hdr60", "fill0"},
                                  ks \in SeqsUpTo(FileKinds \ {"sec"}, MaxFiles) \ {<<>>}}

\* C4: for every volume with a valid signature and an all-zero reset vector
\* whose file entries hold no Security-Core file (and whose whole-file read
\* succeeds), the call returns the sentinel and the ROM sink is invoked with
\* "uefi", the full file contents, the measured size and address 0.
C4_NoSecReturnsInvalid ==
    (pc = "done" /\ blobRead = "ok" /\ file \in C4Images)
    => (result = EFI_INVALID_ENTRY_POINT /\ sink = <<Delivered>>)

\* C5: when the section walk of the first Security-Core file reaches a TE
\* section whose signature is not "VZ", the call returns the sentinel, never
\* that header's entry_point, and no later section is examined.
C5_BadTeSignature ==
    \A te \in seenTe :
        BadTe(te) => /\ entry = EFI_INVALID_ENTRY_POINT
                     /\ pc \in {"rom", "free", "out", "done"}
                     /\ (pc = "done" => result = EFI_INVALID_ENTRY_POINT)
                     /\ \A s \in seenSects : s + SizeofSectHdr <= te

C5_Witness ==
    /\ pc = "done" /\ result = EFI_INVALID_ENTRY_POINT
    /\ \E te \in seenTe : te + SizeofTeHdr <= fsize /\ BadTe(te)
                          /\ <<Byte(te + OffTeEntry), Byte(te + OffTeEntry + 1)>> # <<255, 255>>
    /\ Cardinality(seenSects) = 2

\* C6: on every exit path each acquired resource is released exactly once:
\* the buffer is freed exactly once and never used after the free, the file
\* handle is closed exactly once.
C6_ReleasedOnce ==
    /\ nOpen <= 1 /\ nAlloc <= 1
    /\ nFree = (IF blob = "freed" THEN 1 ELSE 0)
    /\ nClose = (IF fd = "closed" THEN 1 ELSE 0)
    /\ nAlloc = (IF blob = "none" THEN 0 ELSE 1)
    /\ nOpen = (IF fd = "none" THEN 0 ELSE 1)
    /\ ~usedFreed
    /\ (pc = "done" => nFree = nAlloc /\ nClose = nOpen)

C6_Witness ==
    /\ pc = "done" /\ blobRead = "short"
    /\ nAlloc = 1 /\ nFree = 1 /\ nOpen = 1 /\ nClose = 1

\* C7: both walks make strict forward progress on every iteration, also when a
\* packed size decodes to 0 (stated for the headers inside the buffer).
C7_WalksProgress ==
    [][/\ (pc = "file_walk" /\ pc' = "file_walk" /\ ptr + SizeofFileHdr <= fsize)
          => ptr' > ptr
       /\ (pc = "sect_walk" /\ pc' = "sect_walk" /\ sptr + SizeofSectHdr <= fsize)
          => sptr' > sptr]_vars

\* C8: every file, section and TE header decoded lies entirely inside the
\* whole-file buffer.
C8_HeadersInsideBuffer ==
    /\ \A f \in seenFiles : f + SizeofFileHdr <= fsize
    /\ \A x \in seenSects : x + SizeofSectHdr <= fsize
    /\ \A te \in seenTe : te + SizeofTeHdr <= fsize

\* C9 as stated: after a whole-file read that succeeds, the blob is delivered
\* to the ROM sink before the file scan starts.
C9_SinkBeforeScan ==
    pc \in {"file_walk", "sect_walk"} => sink = <<Delivered>>

\* C9 as amended: the blob is delivered exactly once as ("uefi", buffer, size,
\* 0) after the scan has returned and before the buffer is freed, whatever
\* the scan returned, and never while the scan runs; after a short whole-file
\* read the sink is not invoked and the result is the sentinel.
C9_SinkAfterScan ==
    /\ pc \in {"start", "read_hdr", "load", "file_walk", "sect_walk", "rom", "crashed"}
       => sink = <<>>
    /\ (blobRead = "ok" /\ pc \in {"free", "out", "done"}) => sink = <<Delivered>>
    /\ blobRead = "short" => (sink = <<>> /\ (pc = "done" => result = EFI_INVALID_ENTRY_POINT))

C9_Witness ==
    /\ pc = "done" /\ blobRead = "ok"
    /\ result = EFI_INVALID_ENTRY_POINT
    /\ sink = <<Delivered>>
    /\ seenFiles # {}

\* C10: the walk is first-match: the result is that of the first
\* Security-Core file in walk order (the sentinel when its sections hold no TE
\* section or a TE section with a bad signature), and no file entry after it
\* is examined.
C10_FirstMatch ==
    /\ Cardinality(SecSeen) <= 1
    /\ \A x \in SecSeen : /\ \A f \in seenFiles : f <= x
                          /\ \A y \in seenSects : y >= x + SizeofFileHdr
    /\ (seenSects # {} => SecSeen # {})
    /\ (SecSeen # {} /\ pc = "done")
       => \/ /\ seenTe = {} \/ \E te \in seenTe : BadTe(te)
             /\ result = EFI_INVALID_ENTRY_POINT
          \/ \E te \in seenTe :
                /\ ~BadTe(te)
                /\ result = [k \in 1..4 |-> Byte(te + OffTeEntry + k - 1)]

\* a first Security-Core file without a valid TE section, then one with it
C10_Witness ==
    /\ pc = "done" /\ result = EFI_INVALID_ENTRY_POINT
    /\ Cardinality(seenFiles) = 1
    /\ file \in {Image("ok", <<"sec", "sec">>, x) : x \in {<<"raw6">>, <<"tebad">>}}

====
